---- MODULE Spec2Model ----
(***************************************************************************)
(* Model of the az_token_sale ink! contract (src/lib.rs): a fixed-ratio    *)
(* sale of a PSP22 token ("out token") for native value (AZERO).           *)
(*                                                                         *)
(* Each message (add_amount_for_sale, buy) is one action.  A message that  *)
(* returns Err, or that panics, is reverted by the ink! dispatcher: the    *)
(* balances stay as they were and the payment returns to the caller; the   *)
(* external calls the message attempted are still recorded in last.calls.  *)
(* Balance is u128 in the source; here it is W bits wide.                  *)
(***************************************************************************)
EXTENDS Integers, Sequences, FiniteSets, TLC

\* ---- bounds ----
W == 3
MaxUnit == 3
TokenSupply == 4
NativeSupply == 4

RECURSIVE Pow2(_)
Pow2(n) == IF n = 0 THEN 1 ELSE 2 * Pow2(n - 1)

\* Balance::MAX (u128::MAX in the source)
MaxBalance == Pow2(W) - 1

\* ---- accounts ----
alice == "alice"
bob == "bob"
sale == "sale"
\* the PSP22 token the sale is constructed with
button == "button"
Callers == {alice, bob}
Accounts == Callers \cup {sale}

\* admin, out_token, in_unit, out_unit: the contract's storage
\* overflow_checks: whether the build panics on Balance overflow or wraps
\* tok, native: out-token and native balances of the accounts
\* last: the last message, its result, the external calls it made and the
\*   balances before it
VARIABLES admin, out_token, in_unit, out_unit, overflow_checks, tok, native, last

vars == <<admin, out_token, in_unit, out_unit, overflow_checks, tok, native, last>>

\* ---- error values (src/errors.rs, src/lib.rs) ----
Unauthorised == "Unauthorised"
ErrAmountMultiple == "Amount must be in multiples of out_unit"
ErrInMultiple == "In amount must be in multiples of in_unit"
ErrSoldOut == "Sold out"
ErrInsufficientAzero == "Insufficient AZERO balance"
PSP22Error == "PSP22Error"
NoErr == ""

\* ---- arithmetic ----
\* a value or a panic
Val(v) == [trap |-> FALSE, val |-> v]
Panic == [trap |-> TRUE, val |-> 0]

\* Balance * Balance: with overflow checks the product panics when it does
\* not fit, without them it wraps
mul_balance(a, b) ==
    IF a * b <= MaxBalance THEN Val(a * b)
    ELSE IF overflow_checks THEN Panic
    ELSE Val((a * b) % Pow2(W))

\* U256::as_u128 panics when the value does not fit
as_u128(v) == IF v <= MaxBalance THEN Val(v) ELSE Panic

\* ---- collaborators ----
Move(bal, from, to, amount) ==
    LET debited == [bal EXCEPT ![from] = @ - amount]
    IN  [debited EXCEPT ![to] = @ + amount]

\* PSP22 transfer / transfer_from succeed when the holder has the amount and
\* the token accepts the call (allowance, token-side checks)
psp22_ok(bal, from, amount, accepted) == accepted /\ bal[from] >= amount

\* a transfer_from that pulls one unit less than asked
acquire_psp22_short(bal, from, amount) == Move(bal, from, sale, amount - 1)

\* transfer_from(from, contract, amount) of the out token
acquire_psp22(bal, from, amount) == Move(bal, from, sale, amount)

\* a transfer with holder and recipient exchanged
transfer_out_token_reversed(bal, caller, amount) == Move(bal, caller, sale, amount)

\* transfer(caller, out_amount) of the out token, called by the contract
transfer_out_token(bal, caller, amount) == Move(bal, sale, caller, amount)

Call(kind, to, amount, ok) == [kind |-> kind, to |-> to, amount |-> amount, ok |-> ok]

\* ---- private helpers ----
\* an authorisation that lets every caller through
authorise_anyone(allowed, received) == NoErr

authorise(allowed, received) == IF allowed # received THEN Unauthorised ELSE NoErr

\* a native transfer whose failure is not reported
transfer_azero_swallowed(ok) == NoErr

transfer_azero(ok) == IF ok THEN NoErr ELSE ErrInsufficientAzero

\* ---- outcome of a message ----
Outcome(result, err, settled, out, refund, calls, balance) ==
    [result |-> result, err |-> err, settled |-> settled, out |-> out,
     refund |-> refund, calls |-> calls, balance |-> balance]

Err(err, calls, balance) == Outcome("Err", err, 0, 0, 0, calls, balance)
Trap(calls, balance) == Outcome("Trap", NoErr, 0, 0, 0, calls, balance)

\* ---- add_amount_for_sale ----
\* a deposit that accepts amounts that are no multiple of out_unit
add_amount_for_sale_any_amount(caller, amount, accepted) ==
    IF authorise(admin, caller) # NoErr THEN Err(Unauthorised, <<>>, 0)
    ELSE IF amount = 0 THEN Err(ErrAmountMultiple, <<>>, 0)
    ELSE LET ok == psp22_ok(tok, caller, amount, accepted)
             calls == <<Call("transfer_from", sale, amount, ok)>>
         IN  IF ok THEN Outcome("Ok", NoErr, 0, 0, 0, calls, 0)
             ELSE Err(PSP22Error, calls, 0)

\* a deposit that does not look at the result of transfer_from
add_amount_for_sale_unchecked(caller, amount, accepted) ==
    IF authorise(admin, caller) # NoErr THEN Err(Unauthorised, <<>>, 0)
    ELSE IF amount = 0 THEN Err(ErrAmountMultiple, <<>>, 0)
    ELSE IF out_unit = 0 THEN Trap(<<>>, 0)
    ELSE IF amount % out_unit > 0 THEN Err(ErrAmountMultiple, <<>>, 0)
    ELSE LET ok == psp22_ok(tok, caller, amount, accepted)
         IN  Outcome("Ok", NoErr, 0, 0, 0, <<Call("transfer_from", sale, amount, ok)>>, 0)

add_amount_for_sale(caller, amount, accepted) ==
    IF authorise(admin, caller) # NoErr THEN Err(Unauthorised, <<>>, 0)
    ELSE IF amount = 0 THEN Err(ErrAmountMultiple, <<>>, 0)
    ELSE IF out_unit = 0 THEN Trap(<<>>, 0)
    ELSE IF amount % out_unit > 0 THEN Err(ErrAmountMultiple, <<>>, 0)
    ELSE LET ok == psp22_ok(tok, caller, amount, accepted)
             calls == <<Call("transfer_from", sale, amount, ok)>>
         IN  IF ok THEN Outcome("Ok", NoErr, 0, 0, 0, calls, 0)
             ELSE Err(PSP22Error, calls, 0)

\* ---- buy ----
desired_out_amount(in_amount) ==
    LET product == mul_balance(in_amount, out_unit)
    IN  IF product.trap THEN Panic ELSE Val(product.val \div in_unit)

max_in_amount(in_amount, contract_balance, desired) ==
    IF contract_balance >= desired THEN Val(in_amount)
    ELSE as_u128((in_amount * contract_balance) \div desired)

\* a refund that is one unit short
refund_amount_short(in_amount, max_in) == in_amount - max_in - 1

refund_amount(in_amount, max_in) == in_amount - max_in

out_amount(in_amount) == as_u128((in_amount * out_unit) \div in_unit)

\* a settlement that forwards the proceeds before it transfers the asset
buy_settle_proceeds_first(caller, paid, contract_balance, refund_ok, asset_ok, proceeds_ok) ==
    LET desired == desired_out_amount(paid)
    IN
    IF desired.trap THEN Trap(<<>>, contract_balance)
    ELSE
    LET max_in == max_in_amount(paid, contract_balance, desired.val)
    IN
    IF max_in.trap THEN Trap(<<>>, contract_balance)
    ELSE
    LET needs_refund == paid > max_in.val
        refund == IF needs_refund THEN refund_amount(paid, max_in.val) ELSE 0
        c1 == IF needs_refund THEN <<Call("refund", caller, refund, refund_ok)>> ELSE <<>>
    IN
    IF needs_refund /\ transfer_azero(refund_ok) # NoErr
    THEN Err(ErrInsufficientAzero, c1, contract_balance)
    ELSE
    LET out == out_amount(max_in.val)
    IN
    IF out.trap THEN Trap(c1, contract_balance)
    ELSE
    LET c2 == Append(c1, Call("proceeds", admin, max_in.val, proceeds_ok))
    IN
    IF transfer_azero(proceeds_ok) # NoErr
    THEN Err(ErrInsufficientAzero, c2, contract_balance)
    ELSE
    LET asset_done == psp22_ok(tok, sale, out.val, asset_ok)
        c3 == Append(c2, Call("transfer", caller, out.val, asset_done))
    IN
    IF ~asset_done THEN Err(PSP22Error, c3, contract_balance)
    ELSE Outcome("Ok", NoErr, max_in.val, out.val, refund, c3, contract_balance)

buy_settle(caller, paid, contract_balance, refund_ok, asset_ok, proceeds_ok) ==
    LET desired == desired_out_amount(paid)
    IN
    IF desired.trap THEN Trap(<<>>, contract_balance)
    ELSE
    LET max_in == max_in_amount(paid, contract_balance, desired.val)
    IN
    IF max_in.trap THEN Trap(<<>>, contract_balance)
    ELSE
    LET needs_refund == paid > max_in.val
        refund == IF needs_refund THEN refund_amount(paid, max_in.val) ELSE 0
        c1 == IF needs_refund THEN <<Call("refund", caller, refund, refund_ok)>> ELSE <<>>
    IN
    IF needs_refund /\ transfer_azero(refund_ok) # NoErr
    THEN Err(ErrInsufficientAzero, c1, contract_balance)
    ELSE
    LET out == out_amount(max_in.val)
    IN
    IF out.trap THEN Trap(c1, contract_balance)
    ELSE
    LET asset_done == psp22_ok(tok, sale, out.val, asset_ok)
        c2 == Append(c1, Call("transfer", caller, out.val, asset_done))
    IN
    IF ~asset_done THEN Err(PSP22Error, c2, contract_balance)
    ELSE
    LET c3 == Append(c2, Call("proceeds", admin, max_in.val, proceeds_ok))
    IN
    IF transfer_azero(proceeds_ok) # NoErr
    THEN Err(ErrInsufficientAzero, c3, contract_balance)
    ELSE Outcome("Ok", NoErr, max_in.val, out.val, refund, c3, contract_balance)

\* a balance check that never reports an empty sale
sold_out_never(contract_balance) == FALSE

sold_out(contract_balance) == contract_balance = 0

buy(caller, paid, refund_ok, asset_ok, proceeds_ok) ==
    IF paid = 0 THEN Err(ErrInMultiple, <<>>, 0)
    ELSE IF in_unit = 0 THEN Trap(<<>>, 0)
    ELSE IF paid % in_unit > 0 THEN Err(ErrInMultiple, <<>>, 0)
    ELSE LET contract_balance == tok[sale]
         IN  IF sold_out(contract_balance) THEN Err(ErrSoldOut, <<>>, contract_balance)
             ELSE buy_settle(caller, paid, contract_balance, refund_ok, asset_ok, proceeds_ok)

\* ---- the record of the last message ----
Last(op, caller, arg, o) ==
    [op |-> op, caller |-> caller, arg |-> arg,
     result |-> o.result, err |-> o.err, settled |-> o.settled, out |-> o.out,
     refund |-> o.refund, calls |-> o.calls, balance |-> o.balance,
     pre_tok |-> tok, pre_native |-> native]

\* ---- query ----
config ==
    [admin |-> admin, out_token |-> out_token, in_unit |-> in_unit, out_unit |-> out_unit]

\* ---- constructor ----
\* a constructor that makes the contract's own account the admin
new_self_admin(caller, token, in, out) ==
    /\ admin = sale
    /\ out_token = token
    /\ in_unit = in
    /\ out_unit = out

new(caller, token, in, out) ==
    /\ admin = caller
    /\ out_token = token
    /\ in_unit = in
    /\ out_unit = out

Init ==
    /\ \E in \in 0..MaxUnit, out \in 0..MaxUnit : new(alice, button, in, out)
    /\ overflow_checks \in BOOLEAN
    /\ tok = [a \in Accounts |-> IF a = alice THEN TokenSupply ELSE 0]
    /\ native = [a \in Accounts |-> IF a = bob THEN NativeSupply ELSE 0]
    /\ last = Last("new", alice, 0, Outcome("Ok", NoErr, 0, 0, 0, <<>>, 0))

\* ---- actions ----
\* the external calls of buy, one of which may be refused by its callee
ExternalCalls == {"refund", "transfer", "proceeds"}

AddAmountForSale ==
    \E caller \in Callers, amount \in 0..MaxBalance, accepted \in BOOLEAN :
        LET o == add_amount_for_sale(caller, amount, accepted)
        IN  /\ tok' = IF o.result = "Ok" THEN acquire_psp22(tok, caller, amount) ELSE tok
            /\ last' = Last("add_amount_for_sale", caller, amount, o)
            /\ UNCHANGED <<admin, out_token, in_unit, out_unit, overflow_checks, native>>

\* caller sends buy with paid attached; failing names the external call that
\* is refused, if any
BuyStep(caller, paid, failing) ==
    LET o == buy(caller, paid, failing # "refund", failing # "transfer", failing # "proceeds")
        arrived == Move(native, caller, sale, paid)
        refunded == Move(arrived, sale, caller, o.refund)
        forwarded == Move(refunded, sale, admin, o.settled)
    IN  /\ native' = IF o.result = "Ok" THEN forwarded ELSE native
        /\ tok' = IF o.result = "Ok" THEN transfer_out_token(tok, caller, o.out) ELSE tok
        /\ last' = Last("buy", caller, paid, o)
        /\ UNCHANGED <<admin, out_token, in_unit, out_unit, overflow_checks>>

Buy ==
    \E caller \in Callers :
    \E paid \in 0..native[caller], failing \in ExternalCalls \cup {"none"} :
        BuyStep(caller, paid, failing)

\* a holder moves out tokens directly (PSP22 transfer, as the e2e test does
\* to stock the sale)
PSP22Transfer ==
    \E from \in Callers, to \in Accounts, amount \in 1..MaxBalance :
        /\ to # from
        /\ psp22_ok(tok, from, amount, TRUE)
        /\ tok' = Move(tok, from, to, amount)
        /\ last' = Last("psp22_transfer", from, amount, Outcome("Ok", NoErr, 0, 0, 0, <<>>, 0))
        /\ UNCHANGED <<admin, out_token, in_unit, out_unit, overflow_checks, native>>

Next == AddAmountForSale \/ Buy \/ PSP22Transfer

Spec == Init /\ [][Next]_vars

\* the sale when its custody is changed by its own two messages only
NextSale == AddAmountForSale \/ Buy

SpecSale == Init /\ [][NextSale]_vars

\* ---- the sale once it is stocked and left to its buyers ----
\* the sale is stocked, by deposits and direct transfers, before the first buy
Stock == last.op # "buy" /\ (AddAmountForSale \/ PSP22Transfer)

\* caller pays a nonzero multiple of in_unit, the call does not abort and
\* every external transfer it makes succeeds: it returns Ok, or "Sold out"
BuyValidOf(caller, paid) ==
    /\ paid <= native[caller]
    /\ in_unit > 0 /\ paid % in_unit = 0
    /\ BuyStep(caller, paid, "none")
    /\ last'.result = "Ok" \/ last'.err = ErrSoldOut

BuyValid == \E caller \in Callers, paid \in 1..MaxBalance : BuyValidOf(caller, paid)

NextLive == Stock \/ BuyValid

\* buyers keep submitting valid payments
BuyersKeepBuying == WF_vars(BuyValid)

SpecLive == Init /\ [][NextLive]_vars /\ BuyersKeepBuying

TypeOK ==
    /\ admin \in Callers
    /\ out_token = button
    /\ in_unit \in 0..MaxUnit
    /\ out_unit \in 0..MaxUnit
    /\ overflow_checks \in BOOLEAN
    /\ tok \in [Accounts -> 0..MaxBalance]
    /\ native \in [Accounts -> 0..MaxBalance]

(***************************************************************************)
(* Properties                                                              *)
(***************************************************************************)
BuyCalled == last.op = "buy"
BuyOk == BuyCalled /\ last.result = "Ok"
AddCalled == last.op = "add_amount_for_sale"
NoCalls == last.calls = <<>>
NoCallRefused == \A i \in DOMAIN last.calls : last.calls[i].ok
BalancesUnchanged == tok = last.pre_tok /\ native = last.pre_native
CallsOfKind(kind) == {i \in DOMAIN last.calls : last.calls[i].kind = kind}
\* the payment is a nonzero multiple of in_unit
ValidPayment == in_unit > 0 /\ last.arg > 0 /\ last.arg % in_unit = 0
\* paid * out_unit / in_unit in unbounded integers
Desired == (last.arg * out_unit) \div in_unit
Delta(bal, pre, a) == bal[a] - pre[a]

\* C1: a buy that returns Ok((settled, out)) refunds paid - settled, and the
\* sale contract's native balance after the call equals its balance before
\* the payment arrived.
C1_Conservation ==
    BuyOk =>
        /\ last.refund + last.settled = last.arg
        /\ native[sale] = last.pre_native[sale]
        /\ \A i \in CallsOfKind("refund") : last.calls[i].amount = last.refund
        /\ \A i \in CallsOfKind("proceeds") : last.calls[i].amount = last.settled

\* a partially filled buy: part of the payment refunded, part settled
C1_Witness == BuyOk /\ last.refund > 0 /\ last.settled > 0

\* C2: a buy that returns Ok((settled, out)) has
\* settled * out_unit = out * in_unit, whatever the custody balance is.
C2_ExactPrice == BuyOk => last.settled * out_unit = last.out * in_unit

\* C3: the out amount buy asks the token to transfer is at most the custody
\* balance read at the start of the call, so the transfer never fails for
\* lack of custody.
C3_OutWithinCustody ==
    BuyCalled =>
        \A i \in CallsOfKind("transfer") :
            /\ last.calls[i].amount <= last.balance
            /\ last.calls[i].amount <= last.pre_tok[sale]

\* C4: full fill: a valid payment with custody >= desired and no transfer
\* refused returns Ok((paid, desired)) with no refund, the buyer receiving
\* desired out tokens, the admin receiving paid, custody decreasing by desired.
C4_FullFill ==
    (BuyCalled /\ ValidPayment /\ last.pre_tok[sale] >= Desired /\ last.pre_tok[sale] > 0
        /\ NoCallRefused) =>
        /\ last.result = "Ok"
        /\ last.settled = last.arg
        /\ last.out = Desired
        /\ CallsOfKind("refund") = {}
        /\ Delta(tok, last.pre_tok, sale) = 0 - Desired
        /\ Delta(tok, last.pre_tok, last.caller) = Desired
        /\ last.caller # admin => Delta(native, last.pre_native, admin) = last.arg

\* C5: partial fill: a valid payment with 0 < custody < desired and no
\* transfer refused returns Ok((settled, out)) with
\* settled = floor(paid * custody / desired), refund = paid - settled,
\* out = floor(settled * out_unit / in_unit) <= custody, the admin receiving
\* settled.
C5_PartialFill ==
    (BuyCalled /\ ValidPayment /\ 0 < last.pre_tok[sale] /\ last.pre_tok[sale] < Desired
        /\ NoCallRefused) =>
        /\ last.result = "Ok"
        /\ last.settled = (last.arg * last.pre_tok[sale]) \div Desired
        /\ last.refund = last.arg - last.settled
        /\ last.out = (last.settled * out_unit) \div in_unit
        /\ last.out <= last.pre_tok[sale]
        /\ last.caller # admin => Delta(native, last.pre_native, admin) = last.settled

\* C6: a successful buy with 0 < custody < desired delivers the whole custody
\* balance and leaves custody at 0.
C6_PartialFillClearsStock ==
    (BuyOk /\ ValidPayment /\ 0 < last.pre_tok[sale] /\ last.pre_tok[sale] < Desired) =>
        /\ last.out = last.pre_tok[sale]
        /\ tok[sale] = 0

\* C7: add_amount_for_sale by an account other than admin fails with
\* Unauthorised for every amount, makes no call to the token and changes no
\* balance; a deposit succeeds only for admin.
C7_Unauthorised ==
    /\ (AddCalled /\ last.caller # admin) =>
        /\ last.result = "Err"
        /\ last.err = Unauthorised
        /\ NoCalls
        /\ BalancesUnchanged
    /\ (AddCalled /\ last.result = "Ok") => last.caller = admin

\* a non-admin deposit of an amount that is no multiple of out_unit
C7_Witness ==
    /\ AddCalled /\ last.caller # admin
    /\ out_unit > 0 /\ last.arg % out_unit > 0
    /\ last.pre_tok[last.caller] >= last.arg

\* C8: buy with a payment that is 0 or no multiple of in_unit fails with
\* "In amount must be in multiples of in_unit", whatever the custody balance
\* is, and makes no transfer.
C8_InvalidPayment ==
    (BuyCalled /\ ~ValidPayment) =>
        /\ last.result = "Err"
        /\ last.err = ErrInMultiple
        /\ NoCalls
        /\ BalancesUnchanged

\* C9: add_amount_for_sale by admin with an amount that is 0 or no multiple
\* of out_unit fails with "Amount must be in multiples of out_unit" and makes
\* no transfer_from.
C9_InvalidAmount ==
    (AddCalled /\ last.caller = admin
        /\ (last.arg = 0 \/ out_unit = 0 \/ last.arg % out_unit > 0)) =>
        /\ last.result = "Err"
        /\ last.err = ErrAmountMultiple
        /\ NoCalls
        /\ BalancesUnchanged

\* C10: buy with a valid payment while custody is 0 fails with "Sold out"
\* and makes no transfer.
C10_SoldOut ==
    (BuyCalled /\ ValidPayment /\ last.pre_tok[sale] = 0) =>
        /\ last.result = "Err"
        /\ last.err = ErrSoldOut
        /\ NoCalls
        /\ BalancesUnchanged

\* a valid payment arriving at an empty sale
C10_Witness == BuyCalled /\ ValidPayment /\ last.pre_tok[sale] = 0 /\ last.err = ErrSoldOut

\* C11: add_amount_for_sale by admin with a nonzero multiple of out_unit,
\* when transfer_from succeeds, returns Ok and moves exactly that amount from
\* the admin's out-token balance into custody; nothing else changes, and
\* deposits accumulate.
C11_Deposit ==
    (AddCalled /\ last.caller = admin /\ out_unit > 0 /\ last.arg > 0
        /\ last.arg % out_unit = 0 /\ NoCallRefused) =>
        /\ last.result = "Ok"
        /\ last.calls = <<Call("transfer_from", sale, last.arg, TRUE)>>
        /\ tok[sale] = last.pre_tok[sale] + last.arg
        /\ tok[admin] = last.pre_tok[admin] - last.arg
        /\ \A a \in Accounts \ {sale, admin} : tok[a] = last.pre_tok[a]
        /\ native = last.pre_native

\* a second deposit, arriving on top of custody that is already there
C11_Witness ==
    /\ AddCalled /\ last.result = "Ok"
    /\ last.pre_tok[sale] > 0
    /\ tok[sale] = last.pre_tok[sale] + last.arg

\* C12: when an external transfer of buy (refund, asset transfer, proceeds)
\* or of add_amount_for_sale (transfer_from) fails, the call returns an error
\* and every native and out-token balance is what it was before the call.
C12_NoPartialEffect ==
    ((BuyCalled \/ AddCalled) /\ ~NoCallRefused) =>
        /\ last.result = "Err"
        /\ BalancesUnchanged

\* the asset transfer fails after the refund has been sent
C12_Witness ==
    /\ BuyCalled
    /\ Len(last.calls) = 2
    /\ last.calls[1].kind = "refund" /\ last.calls[1].ok /\ last.calls[1].amount > 0
    /\ last.calls[2].kind = "transfer" /\ ~last.calls[2].ok

\* the kinds of the external calls of the last message, in the order made
CallKinds == [i \in DOMAIN last.calls |-> last.calls[i].kind]
\* every call but the last one succeeded
OnlyLastCallMayFail == \A i \in DOMAIN last.calls : i < Len(last.calls) => last.calls[i].ok
\* paid * out_unit / in_unit, the settled amount and the out amount in
\* unbounded integers
MathSettled ==
    IF last.pre_tok[sale] >= Desired THEN last.arg
    ELSE (last.arg * last.pre_tok[sale]) \div Desired
MathOut == (MathSettled * out_unit) \div in_unit

\* C13: buy makes its external transfers in the order refund (only when
\* settled < paid), asset transfer, proceeds; a step is attempted only after
\* every earlier step succeeded, so admin gets no proceeds unless the asset
\* transfer succeeded and no asset transfer follows a failed refund.
C13_TransferOrder ==
    BuyCalled =>
        /\ CallKinds \in {<<>>, <<"refund">>, <<"transfer">>, <<"refund", "transfer">>,
                          <<"transfer", "proceeds">>, <<"refund", "transfer", "proceeds">>}
        /\ OnlyLastCallMayFail
        /\ \A i \in CallsOfKind("refund") :
            last.calls[i].amount > 0 /\ last.calls[i].to = last.caller
        /\ last.result = "Ok" =>
            /\ CallsOfKind("proceeds") # {}
            /\ (CallsOfKind("refund") # {}) = (last.settled < last.arg)

\* the proceeds transfer is refused after refund and asset transfer succeeded
C13_Witness ==
    /\ BuyCalled
    /\ CallKinds = <<"refund", "transfer", "proceeds">>
    /\ last.calls[1].ok /\ last.calls[2].ok /\ ~last.calls[3].ok

\* C14: for a valid payment and a positive custody balance buy computes the
\* desired, settled and out amounts without overflowing the Balance width:
\* no arithmetic abort, and the amounts are those of unbounded arithmetic.
C14_NoOverflow ==
    (BuyCalled /\ ValidPayment /\ last.pre_tok[sale] > 0) =>
        /\ last.result # "Trap"
        /\ \A i \in CallsOfKind("transfer") : last.calls[i].amount = MathOut
        /\ \A i \in CallsOfKind("refund") : last.calls[i].amount = last.arg - MathSettled

\* C15: the configuration (admin, out_token, in_unit, out_unit) is fixed at
\* construction: admin is the account that called the constructor, and no
\* add_amount_for_sale or buy, successful or failing, changes what config()
\* returns.
C15_ConfigFixed ==
    /\ config.admin = alice /\ config.out_token = button
    /\ [][config' = config]_vars

\* a deposit and a purchase have both succeeded
C15_Witness == BuyOk /\ last.out > 0 /\ config.admin = alice /\ tok[sale] > 0

\* C16: when the refund of a buy cannot be transferred to the caller, buy
\* returns "Insufficient AZERO balance" and nothing changes: no out tokens
\* are transferred and no proceeds are sent.
C16_RefundFails ==
    (BuyCalled /\ \E i \in CallsOfKind("refund") : ~last.calls[i].ok) =>
        /\ last.result = "Err"
        /\ last.err = ErrInsufficientAzero
        /\ CallKinds = <<"refund">>
        /\ BalancesUnchanged

\* a refund that is due and refused
C16_Witness ==
    /\ BuyCalled /\ ValidPayment
    /\ 0 < last.pre_tok[sale] /\ last.pre_tok[sale] < Desired
    /\ CallKinds = <<"refund">> /\ ~last.calls[1].ok

SaleCalled == BuyCalled \/ AddCalled

\* C17: custody never increases in a buy and increases only in a successful
\* add_amount_for_sale by admin; a successful buy leaves custody at most what
\* it was, and a failing call leaves it unchanged.
C17_CustodyMonotone ==
    /\ BuyCalled => tok[sale] <= last.pre_tok[sale]
    /\ (SaleCalled /\ tok[sale] > last.pre_tok[sale]) =>
        AddCalled /\ last.result = "Ok" /\ last.caller = admin
    /\ (BuyOk => tok[sale] = last.pre_tok[sale] - last.out)
    /\ (SaleCalled /\ last.result # "Ok") => tok[sale] = last.pre_tok[sale]

\* a successful buy has taken tokens out of custody
C17_Witness == BuyOk /\ last.out > 0 /\ tok[sale] < last.pre_tok[sale]

\* C18: in every reachable state of a constructed sale in_unit > 0 and
\* out_unit > 0, so no modulo or division by a unit divides by zero.
C18_PositiveUnits ==
    in_unit > 0 /\ out_unit > 0

\* x is an exact multiple of unit
IsMultiple(x, unit) == IF unit = 0 THEN x = 0 ELSE x % unit = 0

\* C19: starting from zero custody, with custody changed by
\* add_amount_for_sale and buy only, custody is always a multiple of out_unit,
\* and every successful buy delivers a multiple of out_unit and settles a
\* multiple of in_unit.
C19_Multiples ==
    /\ IsMultiple(tok[sale], out_unit)
    /\ BuyOk => IsMultiple(last.out, out_unit) /\ IsMultiple(last.settled, in_unit)

\* a partial fill that settled less than was paid
C19_Witness == BuyOk /\ 0 < last.settled /\ last.settled < last.arg /\ last.out > 0

\* C20: every buy that returns Ok((settled, out)) has settled > 0 and
\* out > 0, for every positive custody balance the out token can report.
C20_PositiveFill == BuyOk => last.settled > 0 /\ last.out > 0

\* C21: once the sale is stocked and no further deposit is made, if buyers
\* keep submitting valid payments and every external transfer succeeds, the
\* custody balance eventually reaches 0 and stays there, unless no buyer can
\* make a valid payment any more: no positive remainder stays unsellable
\* forever.
C21_EventuallySoldOut == <>[](tok[sale] = 0 \/ ~ENABLED BuyValid)

====
